---- MODULE Spec2Model ----
(***************************************************************************)
(* Model of sketchToIcon (src/src/index.js): the conversion of a FreeCAD   *)
(* "Flattened SVG" into a single-path icon.                                *)
(*                                                                         *)
(* Numbers.  A JavaScript number is modelled as a record: a finite value   *)
(* counted in halves (v = 3 is 1.5), NaN, or an infinity with its sign.    *)
(* Halves are exact in binary floating point, so the arithmetic below is   *)
(* the arithmetic the program performs on these values.                    *)
(*                                                                         *)
(* Strings.  Path data is a sequence of lexemes: a letter, a space, or a   *)
(* number text (carried by its value).  The regular expressions of         *)
(* normalizePathData are modelled by what they match on such sequences.    *)
(***************************************************************************)
EXTENDS Integers, Sequences, FiniteSets, TLC

VARIABLES input, pc, root, viewport, stack, paths, cur, curCtx, visited, err, out

vars == <<input, pc, root, viewport, stack, paths, cur, curCtx, visited, err, out>>

----------------------------------------------------------------------------
(* JavaScript numbers *)

Fin(n) == [k |-> "fin", v |-> n]
NaN == [k |-> "nan", v |-> 0]
Inf(s) == [k |-> "inf", v |-> s]
Whole(i) == Fin(2 * i)
Half(h) == Fin(h)

Sign(n) == IF n > 0 THEN 1 ELSE IF n < 0 THEN -1 ELSE 0
NumSign(a) == IF a.k = "fin" THEN Sign(a.v) ELSE a.v

IsNaN(a) == a.k = "nan"
IsFinite(a) == a.k = "fin"
IsNegative(a) == a.k # "nan" /\ NumSign(a) < 0
IsPositive(a) == a.k # "nan" /\ NumSign(a) > 0

Neg(a) == IF a.k = "nan" THEN NaN ELSE [k |-> a.k, v |-> 0 - a.v]

Add(a, b) ==
    IF a.k = "nan" \/ b.k = "nan" THEN NaN
    ELSE IF a.k = "inf" /\ b.k = "inf" THEN (IF a.v = b.v THEN a ELSE NaN)
    ELSE IF a.k = "inf" THEN a
    ELSE IF b.k = "inf" THEN b
    ELSE Fin(a.v + b.v)

Sub(a, b) == Add(a, Neg(b))

Mul(a, b) ==
    IF a.k = "nan" \/ b.k = "nan" THEN NaN
    ELSE IF a.k = "inf" \/ b.k = "inf"
         THEN (IF NumSign(a) * NumSign(b) = 0 THEN NaN ELSE Inf(NumSign(a) * NumSign(b)))
    ELSE Fin((a.v * b.v) \div 2)

\* The divisor 1 + 2p is never negative zero, so x / 0 has the sign of x.
Div(a, b) ==
    IF a.k = "nan" \/ b.k = "nan" THEN NaN
    ELSE IF a.k = "inf" /\ b.k = "inf" THEN NaN
    ELSE IF a.k = "inf" THEN Inf(IF NumSign(b) < 0 THEN 0 - a.v ELSE a.v)
    ELSE IF b.k = "inf" THEN Fin(0)
    ELSE IF b.v = 0 THEN (IF a.v = 0 THEN NaN ELSE Inf(Sign(a.v)))
    ELSE Fin((2 * a.v) \div b.v)

\* Number(Number(x).toFixed(precision)) on a finite value counted in halves:
\* a value with a fractional part is x.5, which toFixed(0) rounds away from
\* zero and toFixed(p), p >= 1, renders exactly.
ToFixed(a, precision) ==
    IF a.k = "fin" /\ a.v % 2 = 1 /\ precision = 0
    THEN Fin(IF a.v > 0 THEN a.v + 1 ELSE a.v - 1)
    ELSE a

\* The text of a number has a fractional part: /(-?\d+)(\.\d+)/ matches it.
HasFraction(a) == a.k = "fin" /\ a.v % 2 = 1

----------------------------------------------------------------------------
(* Strings of path data *)

Cmd(c) == [t |-> "cmd", c |-> c, v |-> NaN]
Sp == [t |-> "sp", c |-> " ", v |-> NaN]
Num(a) == [t |-> "num", c |-> "", v |-> a]

IsLetter(x) == x.t = "cmd"

RECURSIVE Concat(_)
Concat(ss) == IF ss = <<>> THEN <<>> ELSE Head(ss) \o Concat(Tail(ss))

\* parts.join(" ")
RECURSIVE JoinSp(_)
JoinSp(parts) ==
    IF parts = <<>> THEN <<>>
    ELSE IF Len(parts) = 1 THEN parts[1]
    ELSE parts[1] \o <<Sp>> \o JoinSp(Tail(parts))

\* str.split(" "): n spaces give n + 1 parts, empty parts included.
RECURSIVE SplitSp(_)
SplitSp(s) ==
    IF \A i \in 1..Len(s) : s[i].t # "sp" THEN <<s>>
    ELSE LET i == CHOOSE j \in 1..Len(s) : s[j].t = "sp" /\ \A h \in 1..(j - 1) : s[h].t # "sp"
         IN <<SubSeq(s, 1, i - 1)>> \o SplitSp(SubSeq(s, i + 1, Len(s)))

\* Number.parseFloat of a part (undefined and "" give NaN; a text that
\* starts with a number gives that number; a text that starts with a letter
\* gives NaN).
ParseFloat(part) ==
    IF part = <<>> THEN NaN
    ELSE IF part[1].t = "num" THEN part[1].v
    ELSE NaN

\* parts[i] of a JavaScript array (0-based); past the end it is undefined.
PartAt(parts, i) == IF i + 1 <= Len(parts) THEN parts[i + 1] ELSE <<>>

\* parts[i] = value: an assignment past the end extends the array with
\* holes, which join() renders as empty strings.
SetPart(parts, i, value) ==
    [j \in 1..(IF i + 1 > Len(parts) THEN i + 1 ELSE Len(parts)) |->
        IF j = i + 1 THEN <<Num(value)>>
        ELSE IF j <= Len(parts) THEN parts[j] ELSE <<>>]

----------------------------------------------------------------------------
(* normalizePathData *)

\* .replace(/([^a-z]+)([a-z])/ig, "$1 $2"): a letter that follows a
\* non-letter gets a space in front of it.
AddSpaces(s) ==
    Concat([i \in 1..Len(s) |->
        IF IsLetter(s[i]) /\ i > 1 /\ ~IsLetter(s[i - 1]) THEN <<Sp, s[i]>> ELSE <<s[i]>>])

\* .replace(/\s\s+/g, " "): a run of two or more spaces becomes one space.
CollapseWhitespace(s) ==
    Concat([i \in 1..Len(s) |->
        IF s[i].t = "sp" /\ i > 1 /\ s[i - 1].t = "sp" THEN <<>> ELSE <<s[i]>>])

\* The callback's transform of an M or L command.
TransformPoint(parts, context) ==
    LET p1 == SetPart(parts, 1,
                 Add(Mul(ParseFloat(PartAt(parts, 1)), context.scale[1]), context.translate[1]))
    IN SetPart(p1, 2,
                 Add(Mul(ParseFloat(PartAt(parts, 2)), context.scale[2]), context.translate[2]))

\* The reflection read off the x axis alone.
InvertArcsByX(context) == IsNegative(context.scale[1])

InvertArcs(context) == IsNegative(Mul(context.scale[1], context.scale[2]))

\* The callback's inversion of an arc's rotation and sweep flag.
InvertArc(parts) ==
    LET p3 == SetPart(parts, 3, Mul(ParseFloat(PartAt(parts, 3)), Whole(-1)))
    IN SetPart(p3, 5, IF ParseFloat(PartAt(parts, 5)) = Whole(1) THEN Whole(0) ELSE Whole(1))

\* The callback's transform of an A command.
TransformArc(parts, context) ==
    LET p1 == SetPart(parts, 1, Mul(ParseFloat(PartAt(parts, 1)), context.scale[1]))
        p2 == SetPart(p1, 2, Mul(ParseFloat(PartAt(p1, 2)), context.scale[2]))
        p5 == IF InvertArcs(context) THEN InvertArc(p2) ELSE p2
        p6 == SetPart(p5, 6,
                 Add(Mul(ParseFloat(PartAt(p5, 6)), context.scale[1]), context.translate[1]))
    IN SetPart(p6, 7,
                 Add(Mul(ParseFloat(PartAt(p6, 7)), context.scale[2]), context.translate[2]))

\* The callback of the third replace: one command and the non-letters
\* after it.  Gives the replacement, or the failure of the default branch.
TransformCommand(command, context) ==
    LET parts == SplitSp(command)
    IN  IF parts[1] = <<Cmd("M")>> \/ parts[1] = <<Cmd("L")>>
        THEN [ok |-> TRUE, s |-> JoinSp(TransformPoint(parts, context))]
        ELSE IF parts[1] = <<Cmd("A")>>
        THEN [ok |-> TRUE, s |-> JoinSp(TransformArc(parts, context))]
        ELSE [ok |-> FALSE, s |-> parts[1]]

\* The end of the match of /[a-z][^a-z]+/ that starts at letter i: the last
\* of the non-letters that follow it; i itself when none follows.
RECURSIVE MatchEnd(_, _)
MatchEnd(s, i) ==
    IF i + 1 <= Len(s) /\ ~IsLetter(s[i + 1]) THEN MatchEnd(s, i + 1) ELSE i

\* .replace(/[a-z][^a-z]+/ig, callback) from position i on: text that no
\* match covers is kept as it is; the first failing callback aborts.
RECURSIVE ApplyTransforms(_, _, _)
ApplyTransforms(s, i, context) ==
    IF i > Len(s) THEN [ok |-> TRUE, s |-> <<>>]
    ELSE IF IsLetter(s[i]) /\ MatchEnd(s, i) > i
    THEN LET e == MatchEnd(s, i)
             r == TransformCommand(SubSeq(s, i, e), context)
         IN  IF ~r.ok THEN r
             ELSE LET rest == ApplyTransforms(s, e + 1, context)
                  IN  IF rest.ok THEN [ok |-> TRUE, s |-> r.s \o rest.s] ELSE rest
    ELSE LET rest == ApplyTransforms(s, i + 1, context)
         IN  IF rest.ok THEN [ok |-> TRUE, s |-> <<s[i]>> \o rest.s] ELSE rest

\* .replace(/(-?\d+)(\.\d+)/g, x => Number(Number(x).toFixed(precision)))
ApplyPrecision(s, precision) ==
    [i \in 1..Len(s) |->
        IF s[i].t = "num" /\ HasFraction(s[i].v)
        THEN Num(ToFixed(s[i].v, precision)) ELSE s[i]]

normalizePathData(data, context, precision) ==
    LET r == ApplyTransforms(CollapseWhitespace(AddSpaces(data)), 1, context)
    IN  IF r.ok THEN [ok |-> TRUE, s |-> ApplyPrecision(r.s, precision)] ELSE r

----------------------------------------------------------------------------
(* The markup tree.  input.nodes[n] is node n, input.parent[n] its parent;
   node 0 is the document fragment parseFragment returns, and the children
   of a node are in the order of their numbers. *)

Fragment == 0

childNodes(inp, n) ==
    LET ids == {c \in 1..Len(inp.nodes) : inp.parent[c] = n}
        RECURSIVE Ordered(_)
        Ordered(S) == IF S = {} THEN <<>>
                      ELSE LET m == CHOOSE x \in S : \A y \in S : x <= y
                           IN <<m>> \o Ordered(S \ {m})
    IN Ordered(ids)

nodeName(inp, n) == IF n = Fragment THEN "#document-fragment" ELSE inp.nodes[n].nodeName

\* findRoot: the first node named svg in depth-first pre-order; 0 stands for
\* the undefined result.
RECURSIVE findRoot(_, _)
RECURSIVE findRootAmong(_, _)
findRoot(inp, n) ==
    IF nodeName(inp, n) = "svg" THEN n ELSE findRootAmong(inp, childNodes(inp, n))
findRootAmong(inp, cs) ==
    IF cs = <<>> THEN 0
    ELSE LET result == findRoot(inp, Head(cs))
         IN IF result # 0 THEN result ELSE findRootAmong(inp, Tail(cs))

----------------------------------------------------------------------------
(* The viewport *)

\* width, height, xOffset and yOffset as sketchToIcon computes them from the
\* text of the viewBox attribute and the padding factor.
ViewportOf(viewBoxStr, exportedPaddingFactor) ==
    LET viewBoxParts == SplitSp(viewBoxStr)
        den == Add(Whole(1), Mul(exportedPaddingFactor, Whole(2)))
        width == Div(ParseFloat(PartAt(viewBoxParts, 2)), den)
        height == Div(ParseFloat(PartAt(viewBoxParts, 3)), den)
    IN [width |-> width,
        height |-> height,
        xOffset |-> Sub(ParseFloat(PartAt(viewBoxParts, 0)), Mul(width, exportedPaddingFactor)),
        yOffset |-> Sub(ParseFloat(PartAt(viewBoxParts, 1)), Mul(height, exportedPaddingFactor))]

\* [xOffset, yOffset, width, height].some(Number.isNaN, Number)
InvalidViewBox(vp) ==
    IsNaN(vp.xOffset) \/ IsNaN(vp.yOffset) \/ IsNaN(vp.width) \/ IsNaN(vp.height)

\* The context extractPaths starts from at the root.
RootContext(vp) ==
    [translate |-> <<vp.xOffset, vp.yOffset>>, scale |-> <<Whole(1), Whole(1)>>]

----------------------------------------------------------------------------
(* Transform attributes.  A transform attribute is a sequence of tokens
   text(args): name is the text before the parenthesis, character by
   character, and args the numbers parseFloat reads from the comma-separated
   pieces between the parentheses. *)

LowerCase ==
    {"a", "b", "c", "d", "e", "f", "g", "h", "i", "j", "k", "l", "m",
     "n", "o", "p", "q", "r", "s", "t", "u", "v", "w", "x", "y", "z"}

\* match[1] of /([a-z]+)\(([^\)]*)\)/: the lower-case letters right before
\* the parenthesis; empty when the expression does not match there.
RECURSIVE MatchName(_)
MatchName(text) ==
    IF text = <<>> \/ text[Len(text)] \notin LowerCase THEN <<>>
    ELSE MatchName(SubSeq(text, 1, Len(text) - 1)) \o <<text[Len(text)]>>

Translate == <<"t", "r", "a", "n", "s", "l", "a", "t", "e">>
Scale == <<"s", "c", "a", "l", "e">>

\* A translate that adds its offsets as they are written.
ApplyTranslateUnscaled(context, parts) ==
    [translate |-> <<Add(parts[1], context.translate[1]), Add(parts[2], context.translate[2])>>,
     scale |-> context.scale]

\* case "translate"
ApplyTranslate(context, parts) ==
    [translate |-> <<Add(Mul(context.scale[1], parts[1]), context.translate[1]),
                     Add(Mul(context.scale[2], parts[2]), context.translate[2])>>,
     scale |-> context.scale]

\* case "scale"
ApplyScale(context, parts) ==
    [translate |-> context.translate,
     scale |-> <<Mul(context.scale[1], parts[1]), Mul(context.scale[2], parts[2])>>]

\* One turn of the loop over the matches of the transform attribute.
ApplyToken(context, token) ==
    LET name == MatchName(token.name)
        parts == token.args
    IN  IF name = <<>> THEN [err |-> "none", context |-> context]
        ELSE IF name = Translate
        THEN IF Len(parts) # 2 THEN [err |-> "invalidTranslateParameters", context |-> context]
             ELSE [err |-> "none", context |-> ApplyTranslate(context, parts)]
        ELSE IF name = Scale
        THEN IF Len(parts) # 2 THEN [err |-> "invalidTranslateParameters", context |-> context]
             ELSE [err |-> "none", context |-> ApplyScale(context, parts)]
        ELSE [err |-> "unsupportedTransformCommand", context |-> context]

\* The loop over the tokens, left to right; the first failure ends it.
RECURSIVE ApplyTransformAttr(_, _)
ApplyTransformAttr(context, transform) ==
    IF transform = <<>> THEN [err |-> "none", context |-> context]
    ELSE LET r == ApplyToken(context, Head(transform))
         IN IF r.err # "none" THEN r ELSE ApplyTransformAttr(r.context, Tail(transform))

\* The list of cases without its first.
UnsupportedElementsButRect == {"circle", "ellipse", "line", "polyline"}

UnsupportedElements == {"rect", "circle", "ellipse", "line", "polyline"}

\* style?.includes("transform"): the style attribute is the sequence of the
\* words it is made of.
StyleHasTransform(style) == \E i \in 1..Len(style) : style[i] = "transform"

\* What one call of extractPaths does with its own node, before it recurses:
\* the failure it throws, or the context it goes on with.
extractPathsNode(inp, n, context) ==
    LET node == inp.nodes[n]
        r == ApplyTransformAttr(context, node.transform)
    IN  IF StyleHasTransform(node.style) THEN [err |-> "styleTransform", context |-> context]
        ELSE IF r.err # "none" THEN r
        ELSE IF node.nodeName \in UnsupportedElements
        THEN [err |-> "unsupportedElement", context |-> r.context]
        ELSE r

\* The children taken last to first.
ChildCallsReversed(inp, n, context) ==
    LET cs == childNodes(inp, n)
    IN [i \in 1..Len(cs) |-> [node |-> cs[Len(cs) + 1 - i], context |-> context]]

\* node.childNodes?.forEach(c => extractPaths(c, context)): the calls still
\* to be made, the first child's first.
ChildCalls(inp, n, context) ==
    LET cs == childNodes(inp, n)
    IN [i \in 1..Len(cs) |-> [node |-> cs[i], context |-> context]]

\* A context object shared by the calls: the pending calls see the update.
RecurseShared(pending, inp, n, context) ==
    ChildCalls(inp, n, context)
        \o [i \in 1..Len(pending) |-> [node |-> pending[i].node, context |-> context]]

\* The calls of extractPaths still to be made once node n's own work is
\* done: its children's, each with the context n computed, then what was
\* pending before.
Recurse(pending, inp, n, context) == ChildCalls(inp, n, context) \o pending

\* options.fill ?? "currentColor" and options.fillRule ?? "evenodd"
FillOf(options) == IF options.fill = "undefined" THEN "currentColor" ELSE options.fill
FillRuleOf(options) == IF options.fillRule = "undefined" THEN "evenodd" ELSE options.fillRule

\* The document of the return statement: its viewBox and its path elements.
OutputDocument(vp, collected, options) ==
    [viewBox |-> <<Whole(0), Whole(0), vp.width, vp.height>>,
     paths |-> <<[d |-> JoinSp(collected),
                  fill |-> FillOf(options),
                  fillRule |-> FillRuleOf(options)]>>]

----------------------------------------------------------------------------
(* The state machine of one call of sketchToIcon *)

NoViewport == [width |-> NaN, height |-> NaN, xOffset |-> NaN, yOffset |-> NaN]

InitWith(inp) ==
    /\ input = inp
    /\ pc = "start"
    /\ root = 0
    /\ viewport = NoViewport
    /\ stack = <<>>
    /\ paths = <<>>
    /\ cur = <<>>
    /\ curCtx = RootContext(NoViewport)
    /\ visited = <<>>
    /\ err = [kind |-> "none", node |-> 0]
    /\ out = <<>>

Throw(kind, n) ==
    /\ pc' = "failed"
    /\ err' = [kind |-> kind, node |-> n]

\* const root = findRoot(tree); if (!root) throw
FindRoot ==
    /\ pc = "start"
    /\ LET r == findRoot(input, Fragment)
       IN IF r = 0
          THEN /\ Throw("missingSvg", 0)
               /\ UNCHANGED root
          ELSE /\ root' = r
               /\ pc' = "viewport"
               /\ UNCHANGED err
    /\ UNCHANGED <<input, viewport, stack, paths, cur, curCtx, visited, out>>

\* The viewBox is read and checked; extractPaths is called on the root.
ResolveViewport ==
    /\ pc = "viewport"
    /\ LET viewBoxStr == input.nodes[root].viewBox
           vp == ViewportOf(viewBoxStr, input.options.exportedPaddingFactor)
       IN IF viewBoxStr = <<>>
          THEN /\ Throw("missingViewBox", root)
               /\ UNCHANGED <<viewport, stack>>
          ELSE IF InvalidViewBox(vp)
          THEN /\ Throw("invalidViewBox", root)
               /\ UNCHANGED <<viewport, stack>>
          ELSE /\ viewport' = vp
               /\ stack' = <<[node |-> root, context |-> RootContext(vp)]>>
               /\ pc' = "walk"
               /\ UNCHANGED err
    /\ UNCHANGED <<input, root, paths, cur, curCtx, visited, out>>

\* One call extractPaths(node, context), up to the normalization of its path.
Visit ==
    /\ pc = "walk"
    /\ stack # <<>>
    /\ LET call == Head(stack)
           n == call.node
           r == extractPathsNode(input, n, call.context)
           data == input.nodes[n].d
       IN IF r.err # "none"
          THEN /\ Throw(r.err, n)
               /\ UNCHANGED <<stack, cur, curCtx, visited>>
          ELSE /\ visited' = Append(visited, [node |-> n, context |-> r.context])
               /\ stack' = Recurse(Tail(stack), input, n, r.context)
               /\ UNCHANGED err
               /\ IF input.nodes[n].nodeName = "path" /\ data # <<>>
                  THEN /\ pc' = "addSpaces"
                       /\ cur' = data
                       /\ curCtx' = r.context
                  ELSE UNCHANGED <<pc, cur, curCtx>>
    /\ UNCHANGED <<input, root, viewport, paths, out>>

AddSpacesStep ==
    /\ pc = "addSpaces"
    /\ cur' = AddSpaces(cur)
    /\ pc' = "collapse"
    /\ UNCHANGED <<input, root, viewport, stack, paths, curCtx, visited, err, out>>

CollapseWhitespaceStep ==
    /\ pc = "collapse"
    /\ cur' = CollapseWhitespace(cur)
    /\ pc' = "transform"
    /\ UNCHANGED <<input, root, viewport, stack, paths, curCtx, visited, err, out>>

ApplyTransformsStep ==
    /\ pc = "transform"
    /\ LET r == ApplyTransforms(cur, 1, curCtx)
       IN IF r.ok
          THEN /\ cur' = r.s
               /\ pc' = "precision"
               /\ UNCHANGED err
          ELSE /\ Throw("unsupportedPathCommand", visited[Len(visited)].node)
               /\ UNCHANGED cur
    /\ UNCHANGED <<input, root, viewport, stack, paths, curCtx, visited, out>>

\* The precision limit, and paths.push of the result.
ApplyPrecisionStep ==
    /\ pc = "precision"
    /\ cur' = ApplyPrecision(cur, input.options.precision)
    /\ paths' = Append(paths, cur')
    /\ pc' = "walk"
    /\ UNCHANGED <<input, root, viewport, stack, curCtx, visited, err, out>>

\* The return statement, once every call of extractPaths has returned.
Emit ==
    /\ pc = "walk"
    /\ stack = <<>>
    /\ out' = <<OutputDocument(viewport, paths, input.options)>>
    /\ pc' = "done"
    /\ UNCHANGED <<input, root, viewport, stack, paths, cur, curCtx, visited, err>>

Next ==
    \/ FindRoot
    \/ ResolveViewport
    \/ Visit
    \/ AddSpacesStep
    \/ CollapseWhitespaceStep
    \/ ApplyTransformsStep
    \/ ApplyPrecisionStep
    \/ Emit

----------------------------------------------------------------------------
(* Inputs *)

MaxNodes == 4
MaxTokens == 2
MaxCmds == 2
MaxOrigin == 2

N(i) == Num(Whole(i))

\* Items written with one space between them.
Spaced(items) == JoinSp([i \in 1..Len(items) |-> <<items[i]>>])

NumArgs(ints) == [i \in 1..Len(ints) |-> Whole(ints[i])]

Token(name, ints) == [name |-> name, args |-> NumArgs(ints)]

\* The tokens of an attribute written with one space between them: the text
\* before the parenthesis of a later token starts with that space.
Attr(tokens) ==
    [i \in 1..Len(tokens) |->
        IF i > 1 THEN [name |-> <<" ">> \o tokens[i].name, args |-> tokens[i].args]
        ELSE tokens[i]]

Node(name, style, transform, d, viewBox) ==
    [nodeName |-> name, style |-> style, transform |-> transform, d |-> d, viewBox |-> viewBox]

OptionsWith(padding, precision, fill, fillRule) ==
    [exportedPaddingFactor |-> padding, precision |-> precision,
     fill |-> fill, fillRule |-> fillRule]

Options(padding, precision) == OptionsWith(padding, precision, "undefined", "undefined")

Rotate == <<"r", "o", "t", "a", "t", "e">>
SkewX == <<"s", "k", "e", "w", "X">>
Matrix == <<"m", "a", "t", "r", "i", "x">>

Parents(n) == {p \in [1..n -> 0..(n - 1)] : \A i \in 1..n : p[i] < i}

SeqsUpTo(S, n) == UNION {[1..k -> S] : k \in 0..n}

(* Trees of every shape under a root, of a few kinds of node; a node whose
   parent is the fragment lies outside the root, after it. *)
WalkRoot == Node("svg", <<>>, <<>>, <<>>, Spaced(<<N(0), N(0), N(8), N(8)>>))

WalkNodes ==
    { Node("g", <<>>, Attr(<<Token(Translate, <<10, 0>>), Token(Scale, <<2, 1>>)>>), <<>>, <<>>),
      Node("path", <<>>, Attr(<<Token(Translate, <<5, 0>>)>>),
           Spaced(<<Cmd("M"), N(1), N(1)>>), <<>>),
      Node("path", <<"fill">>, <<>>, Spaced(<<Cmd("L"), N(2), N(3)>>), <<>>),
      Node("rect", <<>>, <<>>, <<>>, <<>>),
      Node("circle", <<>>, Attr(<<Token(Rotate, <<30>>)>>), <<>>, <<>>) }

WalkInput(ns, ps) ==
    [nodes |-> <<WalkRoot>> \o ns, parent |-> ps, options |-> Options(Whole(0), 5)]

(* A group inside the root and a path inside the group, with every short
   transform attribute on the group. *)
TransformTokens ==
    { Token(Translate, <<10, 0>>), Token(Translate, <<3>>), Token(Translate, <<1, 2, 3>>),
      Token(Scale, <<2, 1>>), Token(Scale, <<-1, 3>>), Token(Scale, <<2>>),
      Token(Rotate, <<30>>), Token(SkewX, <<30>>), Token(Matrix, <<1, 0, 0, 1, 0, 0>>) }

TransformInput(ts, x) ==
    [nodes |-> << Node("svg", <<>>, <<>>, <<>>, Spaced(<<N(x), N(0), N(8), N(8)>>)),
                  Node("g", <<>>, Attr(ts), <<>>, <<>>),
                  Node("path", <<>>, Attr(<<Token(Translate, <<5, 0>>)>>),
                       Spaced(<<Cmd("M"), N(1), N(1)>>), <<>>) >>,
     parent |-> <<0, 1, 2>>,
     options |-> Options(Whole(0), 5)]

(* One path inside the root, with path data made of a few commands, written
   with or without a space after the command letter, between the commands
   and at the end. *)
Written(letter, glue, args) == <<Cmd(letter)>> \o glue \o Spaced(args)

PathCommands ==
    { Written("M", <<Sp>>, <<N(1), N(1)>>),
      Written("M", <<>>, <<N(1), N(1)>>),
      Written("L", <<Sp>>, <<N(101), Num(Half(-5))>>),
      Written("L", <<>>, <<N(101), N(101)>>),
      Written("A", <<Sp>>, <<N(2), N(3), Num(Half(45)), N(0), N(1), N(5), Num(Half(13))>>),
      Written("A", <<Sp>>, <<N(2), N(3), N(0), N(1), N(0), N(5), N(6)>>),
      Written("C", <<Sp>>, <<N(1), N(2)>>),
      <<Cmd("Z")>>,
      Written("m", <<Sp>>, <<N(1), N(1)>>) }

RECURSIVE JoinWith(_, _)
JoinWith(parts, sep) ==
    IF parts = <<>> THEN <<>>
    ELSE IF Len(parts) = 1 THEN parts[1]
    ELSE parts[1] \o sep \o JoinWith(Tail(parts), sep)

PathData(cs, sep, end) == JoinWith(cs, sep) \o end

PathTransforms ==
    { <<>>,
      Attr(<<Token(Scale, <<-1, 1>>)>>),
      Attr(<<Token(Scale, <<2, -1>>)>>),
      Attr(<<Token(Scale, <<-1, -2>>)>>),
      Attr(<<Token(Translate, <<1, 1>>), Token(Scale, <<2, 2>>)>>) }

PathInput(tf, d, precision) ==
    [nodes |-> << Node("svg", <<>>, <<>>, <<>>, Spaced(<<N(0), N(0), N(102), N(102)>>)),
                  Node("path", <<>>, tf, d, <<>>) >>,
     parent |-> <<0, 1>>,
     options |-> Options(Whole(0), precision)]

(* One path without a transform, in a document whose root comes first, lies
   inside a group, or is missing, with every viewBox and padding factor of a
   small range. *)
Origins(maxOrigin) == {Whole(i) : i \in (0 - maxOrigin)..maxOrigin}
Sizes == {Whole(8), Whole(0), Whole(-8), NaN}
Paddings == {Whole(0), Half(1), Half(-1), Whole(-1)}

ViewBoxes(maxOrigin) ==
    {<<>>, Spaced(<<N(0), N(0), N(8)>>)}
    \cup {Spaced(<<Num(x), Num(y), Num(w), Num(h)>>) :
            x \in Origins(maxOrigin), y \in {Whole(0), Whole(1)}, w \in Sizes,
            h \in {Whole(8), Whole(0)}}

ViewPath ==
    Node("path", <<>>, <<>>,
         Spaced(<<Cmd("M"), N(1), Num(Half(3)), Cmd("L"), N(3), N(4)>>), <<>>)

Group == Node("g", <<>>, <<>>, <<>>, <<>>)

ViewInput(shape, vb, p, precision, fill) ==
    LET svg == Node("svg", <<>>, <<>>, <<>>, vb)
    IN [nodes |-> IF shape = "plain" THEN <<svg, ViewPath>>
                  ELSE IF shape = "wrapped" THEN <<Group, ViewPath, svg, ViewPath>>
                  ELSE <<Group, ViewPath>>,
        parent |-> IF shape = "wrapped" THEN <<0, 1, 1, 3>> ELSE <<0, 1>>,
        options |-> OptionsWith(p, precision, fill, IF fill = "undefined" THEN fill ELSE "nonzero")]

InitWalk ==
    \E n \in 1..MaxNodes : \E ns \in [1..(n - 1) -> WalkNodes], ps \in Parents(n) :
        InitWith(WalkInput(ns, ps))
SpecWalk == InitWalk /\ [][Next]_vars

InitTransform ==
    \E ts \in SeqsUpTo(TransformTokens, MaxTokens), x \in {0, 3} :
        InitWith(TransformInput(ts, x))
SpecTransform == InitTransform /\ [][Next]_vars

InitPath ==
    \E cs \in SeqsUpTo(PathCommands, MaxCmds) \ {<<>>}, sep \in {<<>>, <<Sp>>}, end \in {<<>>, <<Sp>>} :
        \E tf \in PathTransforms, precision \in {0, 5} :
            InitWith(PathInput(tf, PathData(cs, sep, end), precision))
SpecPath == InitPath /\ [][Next]_vars

InitView ==
    \E shape \in {"plain", "wrapped", "none"}, vb \in ViewBoxes(MaxOrigin), p \in Paddings :
        \E precision \in {0, 5}, fill \in {"undefined", "red"} :
            InitWith(ViewInput(shape, vb, p, precision, fill))
SpecView == InitView /\ [][Next]_vars

Init == InitWalk \/ InitTransform \/ InitPath \/ InitView
Spec == Init /\ [][Next]_vars

----------------------------------------------------------------------------
(* What the properties below are stated with *)

Terminal == pc \in {"done", "failed"}

\* The nodes of the subtree of n, in depth-first pre-order.
RECURSIVE PreOrder(_, _)
RECURSIVE PreOrderAll(_, _)
PreOrder(inp, n) == <<n>> \o PreOrderAll(inp, childNodes(inp, n))
PreOrderAll(inp, cs) ==
    IF cs = <<>> THEN <<>> ELSE PreOrder(inp, Head(cs)) \o PreOrderAll(inp, Tail(cs))

\* The nodes from r down to its descendant n.
RECURSIVE PathFrom(_, _, _)
PathFrom(inp, r, n) ==
    IF n = r THEN <<r>> ELSE PathFrom(inp, r, inp.parent[n]) \o <<n>>

Position(seq, x) == CHOOSE i \in 1..Len(seq) : seq[i] = x
Occurs(seq, x) == \E i \in 1..Len(seq) : seq[i] = x

\* The text before a token's parenthesis without the spaces in front of it.
RECURSIVE TokenName(_)
TokenName(text) ==
    IF text # <<>> /\ text[1] = " " THEN TokenName(Tail(text)) ELSE text

IsTranslate(token) == TokenName(token.name) = Translate
IsScale(token) == TokenName(token.name) = Scale
WellFormedToken(token) == (IsTranslate(token) \/ IsScale(token)) /\ Len(token.args) = 2

\* The scale in force when token k of tokens is met, on one axis: the
\* starting scale times the factors of the scale tokens before it.
RECURSIVE ScaleInForce(_, _, _, _)
ScaleInForce(s0, tokens, k, axis) ==
    IF k = 1 THEN s0[axis]
    ELSE LET before == ScaleInForce(s0, tokens, k - 1, axis)
         IN IF IsScale(tokens[k - 1]) THEN Mul(before, tokens[k - 1].args[axis]) ELSE before

\* The translation after the first k tokens, on one axis: the starting
\* translation plus, for each translate token, its offset times the scale in
\* force when it is met.
RECURSIVE TranslationAfter(_, _, _, _, _)
TranslationAfter(t0, s0, tokens, k, axis) ==
    IF k = 0 THEN t0[axis]
    ELSE LET before == TranslationAfter(t0, s0, tokens, k - 1, axis)
         IN IF IsTranslate(tokens[k])
            THEN Add(before, Mul(ScaleInForce(s0, tokens, k, axis), tokens[k].args[axis]))
            ELSE before

ComposedContext(c0, tokens) ==
    [translate |-> <<TranslationAfter(c0.translate, c0.scale, tokens, Len(tokens), 1),
                     TranslationAfter(c0.translate, c0.scale, tokens, Len(tokens), 2)>>,
     scale |-> <<ScaleInForce(c0.scale, tokens, Len(tokens) + 1, 1),
                 ScaleInForce(c0.scale, tokens, Len(tokens) + 1, 2)>>]

\* The transform tokens of the nodes of a sequence, one node after another.
RECURSIVE TokensAlong(_, _)
TokensAlong(inp, ns) ==
    IF ns = <<>> THEN <<>> ELSE inp.nodes[Head(ns)].transform \o TokensAlong(inp, Tail(ns))

\* The context of the call that visited node n.
VisitedContext(n) == visited[CHOOSE i \in 1..Len(visited) : visited[i].node = n].context

\* The context the call on the i-th visited node was given.
InheritedContext(i) ==
    IF visited[i].node = root THEN RootContext(viewport)
    ELSE VisitedContext(input.parent[visited[i].node])

Ctx(tx, ty, sx, sy) ==
    [translate |-> <<Whole(tx), Whole(ty)>>, scale |-> <<Whole(sx), Whole(sy)>>]

----------------------------------------------------------------------------
(* C1 *)

\* C1: the transform tokens of a node are applied left to right to the
\* running context: a translate adds its offsets times the scale in force
\* when it is met, a scale multiplies the scale and leaves the translation
\* alone.  For a node with translate(10,0) scale(2,1) that starts from
\* t = (0,0), s = (1,1), a child with translate(5,0) gets t = (20,0),
\* s = (2,1).
C1_TokensComposeLeftToRight ==
    \A i \in 1..Len(visited) :
        LET n == visited[i].node
        IN /\ visited[i].context = ComposedContext(InheritedContext(i), input.nodes[n].transform)
           /\ ( /\ n # root
                /\ input.nodes[n].transform = Attr(<<Token(Translate, <<5, 0>>)>>)
                /\ input.nodes[input.parent[n]].transform
                       = Attr(<<Token(Translate, <<10, 0>>), Token(Scale, <<2, 1>>)>>)
                /\ InheritedContext(Position([j \in 1..Len(visited) |-> visited[j].node],
                                             input.parent[n])) = Ctx(0, 0, 1, 1) )
              => visited[i].context = Ctx(20, 0, 2, 1)

\* The example of C1 has been walked: the child of a node with
\* translate(10,0) scale(2,1) has applied its translate(5,0).
C1_Witness ==
    \E i \in 1..Len(visited) :
        LET n == visited[i].node
        IN /\ n # root
           /\ input.nodes[n].transform = Attr(<<Token(Translate, <<5, 0>>)>>)
           /\ input.nodes[input.parent[n]].transform
                  = Attr(<<Token(Translate, <<10, 0>>), Token(Scale, <<2, 1>>)>>)
           /\ VisitedContext(input.parent[n]) = Ctx(10, 0, 2, 1)
           /\ visited[i].context = Ctx(20, 0, 2, 1)

----------------------------------------------------------------------------
(* C10 *)

\* The initial context folded with the transform tokens of the nodes from
\* the root down to n, n included.
ExpectedContext(n) ==
    ComposedContext([translate |-> <<viewport.xOffset, viewport.yOffset>>,
                     scale |-> <<Whole(1), Whole(1)>>],
                    TokensAlong(input, PathFrom(input, root, n)))

Normalizing == pc \in {"addSpaces", "collapse", "transform", "precision"}

\* C10: the context of every visited node, and the context its path is
\* normalized under, is the initial context folded with the transform tokens
\* of exactly the nodes from the root down to that node, in that order;
\* siblings, their descendants and the node's own descendants play no part.
C10_ContextFollowsRootPath ==
    /\ \A i \in 1..Len(visited) : visited[i].context = ExpectedContext(visited[i].node)
    /\ Normalizing => curCtx = ExpectedContext(visited[Len(visited)].node)

\* A path is being normalized after a node with a transform that is not
\* above it has been visited.
C10_Witness ==
    /\ pc = "precision"
    /\ LET n == visited[Len(visited)].node
       IN /\ input.nodes[n].transform # <<>>
          /\ \E j \in 1..(Len(visited) - 1) :
                /\ ~Occurs(PathFrom(input, root, n), visited[j].node)
                /\ input.nodes[visited[j].node].transform # <<>>

----------------------------------------------------------------------------
(* C9 *)

\* The nodes among ns that are paths with a non-empty d attribute.
RECURSIVE PathNodes(_, _)
PathNodes(inp, ns) ==
    IF ns = <<>> THEN <<>>
    ELSE (IF inp.nodes[Head(ns)].nodeName = "path" /\ inp.nodes[Head(ns)].d # <<>>
          THEN <<Head(ns)>> ELSE <<>>) \o PathNodes(inp, Tail(ns))

ExpectedPaths ==
    LET P == PathNodes(input, PreOrder(input, root))
    IN [i \in 1..Len(P) |->
          normalizePathData(input.nodes[P[i]].d, ExpectedContext(P[i]), input.options.precision).s]

\* C9: on success the document has exactly one path element and the
\* coordinate frame 0 0 width height, and the path's data is the normalized
\* strings of exactly the path nodes of the root's subtree that carry a
\* non-empty d attribute, each once, in depth-first pre-order, joined by
\* spaces.
C9_OnePathInPreOrder ==
    pc = "done" =>
        /\ Len(out) = 1
        /\ Len(out[1].paths) = 1
        /\ out[1].viewBox = <<Whole(0), Whole(0), viewport.width, viewport.height>>
        /\ out[1].paths[1].d = JoinSp(ExpectedPaths)

\* A document was returned for a tree with three paths whose pre-order is
\* not the order of the node numbers.
C9_Witness ==
    /\ pc = "done"
    /\ Len(paths) >= 3
    /\ LET P == PathNodes(input, PreOrder(input, root))
       IN \E i, j \in 1..Len(P) : i < j /\ P[i] > P[j]

----------------------------------------------------------------------------
(* C8 *)

IsUnsupportedElement(n) ==
    input.nodes[n].nodeName \in {"rect", "circle", "ellipse", "line", "polyline"}

----------------------------------------------------------------------------
(* What the properties of path data are stated with *)

\* The positions of the letters of s, in order.
RECURSIVE LetterPositionsFrom(_, _)
LetterPositionsFrom(s, i) ==
    IF i > Len(s) THEN <<>>
    ELSE (IF IsLetter(s[i]) THEN <<i>> ELSE <<>>) \o LetterPositionsFrom(s, i + 1)
LetterPositions(s) == LetterPositionsFrom(s, 1)

\* The numbers written after position i of s, up to the next letter.
RECURSIVE NumsAfter(_, _)
NumsAfter(s, i) ==
    IF i + 1 > Len(s) \/ IsLetter(s[i + 1]) THEN <<>>
    ELSE (IF s[i + 1].t = "num" THEN <<s[i + 1].v>> ELSE <<>>) \o NumsAfter(s, i + 1)

\* A number limited to a precision: a number counted in halves has at most
\* one fractional digit, which only the precision 0 removes, rounding the
\* half away from zero.
Rounded(a, precision) ==
    IF a.k = "fin" /\ a.v % 2 = 1 /\ precision = 0
    THEN (IF a.v > 0 THEN Fin(a.v + 1) ELSE Fin(a.v - 1))
    ELSE a

\* x * scale + translate on one axis.
Mapped(a, context, axis) == Add(Mul(a, context.scale[axis]), context.translate[axis])

SameLetters(data, result) ==
    /\ Len(LetterPositions(data)) = Len(LetterPositions(result))
    /\ \A m \in 1..Len(LetterPositions(data)) :
          data[LetterPositions(data)[m]].c = result[LetterPositions(result)[m]].c

\* The path nodes with data that were visited, and the data and context of
\* the k-th.
VisitedPaths == PathNodes(input, [i \in 1..Len(visited) |-> visited[i].node])
DataOf(k) == input.nodes[VisitedPaths[k]].d
ContextOf(k) == VisitedContext(VisitedPaths[k])

----------------------------------------------------------------------------
(* C2 *)

\* Every A command of data that has its seven arguments is in result with
\* its radii scaled, its endpoint mapped, its large-arc flag kept, and its
\* rotation negated and sweep flag toggled exactly when scale.x * scale.y is
\* negative (every number limited to the precision).
ArcsHold(data, context, precision, result) ==
    /\ SameLetters(data, result)
    /\ \A m \in 1..Len(LetterPositions(data)) :
          LET a == NumsAfter(data, LetterPositions(data)[m])
              b == NumsAfter(result, LetterPositions(result)[m])
          IN (data[LetterPositions(data)[m]].c = "A" /\ Len(a) = 7) =>
                /\ Len(b) = 7
                /\ b[1] = Rounded(Mul(a[1], context.scale[1]), precision)
                /\ b[2] = Rounded(Mul(a[2], context.scale[2]), precision)
                /\ b[4] = Rounded(a[4], precision)
                /\ b[6] = Rounded(Mapped(a[6], context, 1), precision)
                /\ b[7] = Rounded(Mapped(a[7], context, 2), precision)
                /\ IF IsNegative(Mul(context.scale[1], context.scale[2]))
                   THEN /\ b[3] = Rounded(Neg(a[3]), precision)
                        /\ a[5] = Whole(1) => b[5] = Whole(0)
                        /\ a[5] = Whole(0) => b[5] = Whole(1)
                   ELSE /\ b[3] = Rounded(a[3], precision)
                        /\ b[5] = Rounded(a[5], precision)

\* C2: under a context whose scale.x * scale.y is negative an A command is
\* emitted with its rotation negated, its sweep flag toggled, its large-arc
\* flag unchanged, its radii rx * scale.x and ry * scale.y and its endpoint
\* (x * scale.x + translate.x, y * scale.y + translate.y); otherwise its
\* rotation and sweep flag are emitted unchanged.
C2_ArcsInvertedUnderReflection ==
    \A k \in 1..Len(paths) :
        ArcsHold(DataOf(k), ContextOf(k), input.options.precision, paths[k])

\* The arc A 2 3 22.5 0 1 5 6.5 has been emitted under scale = (-1, 1) as
\* A -2 3 -22.5 0 0 -5 6.5.
C2_Witness ==
    /\ pc = "done"
    /\ Len(paths) = 1
    /\ DataOf(1) = Written("A", <<Sp>>, <<N(2), N(3), Num(Half(45)), N(0), N(1), N(5), Num(Half(13))>>)
    /\ ContextOf(1) = Ctx(0, 0, -1, 1)
    /\ paths[1] = Spaced(<<Cmd("A"), N(-2), N(3), Num(Half(-45)), N(0), N(0), N(-5), Num(Half(13))>>)

----------------------------------------------------------------------------
(* C4 *)

\* Path data made of M and L commands with two numbers each.
IsMoveLine(data) ==
    /\ data # <<>>
    /\ IsLetter(data[1])
    /\ \A m \in 1..Len(LetterPositions(data)) :
          /\ data[LetterPositions(data)[m]].c \in {"M", "L"}
          /\ Len(NumsAfter(data, LetterPositions(data)[m])) = 2

PointsHold(data, context, precision, result) ==
    /\ SameLetters(data, result)
    /\ \A m \in 1..Len(LetterPositions(data)) :
          LET a == NumsAfter(data, LetterPositions(data)[m])
              b == NumsAfter(result, LetterPositions(result)[m])
          IN b = <<Rounded(Mapped(a[1], context, 1), precision),
                   Rounded(Mapped(a[2], context, 2), precision)>>

\* C4: path data made of M and L commands with two numbers each is
\* normalized without failure, also when a letter is written right before
\* its first number, and comes out as the same commands in the same order
\* with each point (x, y) rewritten to (x * scale.x + translate.x,
\* y * scale.y + translate.y).
C4_MoveLineRewritten ==
    /\ (pc = "failed" /\ err.kind = "unsupportedPathCommand")
          => ~IsMoveLine(input.nodes[err.node].d)
    /\ \A k \in 1..Len(paths) :
          IsMoveLine(DataOf(k))
              => PointsHold(DataOf(k), ContextOf(k), input.options.precision, paths[k])

----------------------------------------------------------------------------
(* C5 *)

HasOtherLetter(data) ==
    \E i \in 1..Len(data) : IsLetter(data[i]) /\ data[i].c \notin {"M", "L", "A"}

\* C5: path data that holds a command letter other than M, L or A, at any
\* position and with or without arguments after it, makes the call fail with
\* the unsupported-path-command error, without output.
C5_OtherLettersFail ==
    (Terminal /\ root # 0 /\ \E n \in 1..Len(input.nodes) :
                    /\ Occurs(PathNodes(input, PreOrder(input, root)), n)
                    /\ HasOtherLetter(input.nodes[n].d))
        => /\ pc = "failed"
           /\ err.kind = "unsupportedPathCommand"
           /\ out = <<>>

----------------------------------------------------------------------------
(* C6 *)

\* C6: a visited node's transform token whose name is not translate or
\* scale, or that has not exactly two arguments, makes the call fail with an
\* unsupported-transform error; no token is passed over.
C6_EveryTokenChecked ==
    /\ \A i \in 1..Len(visited) :
          \A k \in 1..Len(input.nodes[visited[i].node].transform) :
              WellFormedToken(input.nodes[visited[i].node].transform[k])
    /\ (pc = "failed" /\ \E k \in 1..Len(input.nodes[err.node].transform) :
                            ~WellFormedToken(input.nodes[err.node].transform[k]))
          => err.kind \in {"styleTransform", "invalidTranslateParameters",
                           "unsupportedTransformCommand"}

----------------------------------------------------------------------------
(* C3 *)

\* The root has one path, no node of it has a transform attribute, the
\* padding factor is 0 and the viewBox has a positive size.
IdentitySinglePath ==
    /\ root # 0
    /\ Len(PathNodes(input, PreOrder(input, root))) = 1
    /\ \A i \in 1..Len(PreOrder(input, root)) :
          input.nodes[PreOrder(input, root)[i]].transform = <<>>
    /\ input.options.exportedPaddingFactor = Whole(0)
    /\ IsFinite(viewport.width) /\ IsPositive(viewport.width)
    /\ IsFinite(viewport.height) /\ IsPositive(viewport.height)

\* C3: for a single path under the identity transform and a padding factor
\* of 0, every emitted point is the input point minus the viewBox origin,
\* (x - minX, y - minY), limited to the precision.
C3_PointsMinusOrigin ==
    (pc = "done" /\ IdentitySinglePath) =>
        LET data == DataOf(1)
            result == out[1].paths[1].d
            viewBoxParts == SplitSp(input.nodes[root].viewBox)
            minX == ParseFloat(PartAt(viewBoxParts, 0))
            minY == ParseFloat(PartAt(viewBoxParts, 1))
        IN /\ SameLetters(data, result)
           /\ \A m \in 1..Len(LetterPositions(data)) :
                 LET a == NumsAfter(data, LetterPositions(data)[m])
                     b == NumsAfter(result, LetterPositions(result)[m])
                 IN b = <<Rounded(Sub(a[1], minX), input.options.precision),
                          Rounded(Sub(a[2], minY), input.options.precision)>>

----------------------------------------------------------------------------
(* C7 *)

\* C7: when a document is returned, the width and height derived from the
\* viewBox and the padding factor are finite and positive and the two
\* offsets are finite; any other viewBox or padding factor makes the call
\* fail instead.
C7_ViewportFinitePositive ==
    pc = "done" =>
        /\ IsFinite(viewport.width) /\ IsPositive(viewport.width)
        /\ IsFinite(viewport.height) /\ IsPositive(viewport.height)
        /\ IsFinite(viewport.xOffset)
        /\ IsFinite(viewport.yOffset)

====
